---- MODULE Spec2Model ----
(***************************************************************************)
(* KantOS scheduler and context switch (os.c, os.h, system_cortex_m33.c).  *)
(*                                                                         *)
(* Three execution levels share the scheduler state:                       *)
(*   - thread level: the task whose stack the CPU is on runs yield() and   *)
(*     sleep() one shared-memory access at a time;                         *)
(*   - PendSV_Handler (priority 0xD0): runs when pended and no handler is  *)
(*     active, one instruction group at a time, and can be preempted by    *)
(*     the tick outside its cpsid/cpsie section;                           *)
(*   - SysTick_Handler (priority 0xC0): preempts both, runs schedule()     *)
(*     to completion.                                                      *)
(*                                                                         *)
(* A 32-bit state vector is modelled as the set of task numbers whose bit  *)
(* (31 - task number) is set.                                              *)
(*                                                                         *)
(* The task table and the port are inputs: __tasks_count is one of        *)
(* TableSizes, and Sys_Driver is the port's driver table or NULL, the case *)
(* every wrapper of system.h tests for.  Task                              *)
(* bodies are followed without limit for a table of SmallTable tasks, for  *)
(* MaxCalls calls of yield()/sleep() for a table of MidTable tasks, and a  *)
(* larger table is followed through scheduler_start() and the ticks after  *)
(* it.                                                                     *)
(***************************************************************************)
EXTENDS Integers, FiniteSets, TLC

\* ------------------------------------------------------------------ bounds
MaxTick == 3        \* ticks delivered in a run
MaxSleep == 1       \* sleep() arguments are 0..MaxSleep
MaxPrio == 2        \* user task priorities are 1..MaxPrio
SmallTable == 3     \* table whose task bodies run: two user tasks and idle
MidTable == 4       \* table whose task bodies run for MaxCalls calls
MaxCalls == 3       \* yield()/sleep() calls followed for a MidTable table

\* ------------------------------------------------------- program constants
MAX_NUM_TASKS == 32
OS_LOWEST_PRIO == 0
OS_NOSLEEP == 1000000   \* all-ones 64-bit value: above every tick count
NoTask == 32            \* CLZ of an empty vector: no entry of __tasks
TASK_STACK_SIZE == 1024 \* 0x400UL bytes
IDLE_STACK_SIZE == 256  \* 0x100UL bytes
WordSize == 4           \* sizeof(uint32_t): the step of a uint32_t pointer
FrameWords == 18        \* words that STM_Task_Stack_init stores

States == {"NEXT", "READY", "PENDING", "RUNNING", "EJECTED"}

\* Values of __tasks_count that are followed.
TableSizes == {SmallTable, MidTable, MAX_NUM_TASKS, MAX_NUM_TASKS + 1}

VARIABLES
    tasks_count,      \* __tasks_count: user tasks and the appended idle task
    Sys_Driver,       \* TRUE: the port's driver table; FALSE: NULL
    boot,             \* position of main() in scheduler_start()
    calls,            \* yield()/sleep() calls made so far with a MidTable table
    task_state_list,  \* [States -> SUBSET Tasks]
    wakeup_time,      \* __tasks[i].wakeup_time
    sp,               \* __tasks[i].sp: the task whose saved frame it points at
    stack,            \* __tasks[i].sp as set at bootstrap: byte offsets from task_stacks
    prio,             \* __tasks[i].prio
    systicks,         \* tick counter: the number of ticks delivered in the run
    counter,          \* the two 32-bit words of the tick counter
    rd,               \* a read of the tick counter by STM_TICK_get, word by word
    tick_cb,          \* TRUE once TICK_init stored &schedule
    pendsv,           \* ICSR.PENDSVSET
    hpc,              \* position inside PendSV_Handler ("idle": not active)
    r5,               \* PendSV_Handler's register r5
    cpu,              \* task whose stack the CPU runs on at thread level
    pc,               \* [Tasks -> position of the task's code]
    loc,              \* [Tasks -> locals of yield()/sleep()]
    oob               \* TRUE once __tasks[32] was accessed or 1 << (31 - 32) taken

vars == <<tasks_count, Sys_Driver, boot, calls, task_state_list, wakeup_time, sp,
          stack, prio, systicks, counter, rd, tick_cb, pendsv, hpc, r5, cpu, pc, loc, oob>>

Tasks == 0 .. (tasks_count - 1)
IdleTask == tasks_count - 1

\* Never written after the image is built.
Fixed == <<tasks_count, Sys_Driver, prio>>

\* Written only by scheduler_start() and at thread level.
Booted == <<boot, calls, stack>>

\* ------------------------------------------------------------- primitives

Min(S) == CHOOSE x \in S : \A y \in S : x <= y

\* clz: 32 for an empty vector, else the number of the lowest-numbered task.
Clz(value) == IF value = {} THEN NoTask ELSE Min(value)

\* The wrapper of system.h: 0 when no driver is registered.
CountLeadingZeros(value) == IF Sys_Driver THEN Clz(value) ELSE 0

\* The wrapper of system.h: 0 when no driver is registered.
TICK_get == IF Sys_Driver THEN systicks ELSE 0

\* (1 << (31UL - x)).  For x = 32 the shift count is out of range: an ARM
\* register shift yields 0, a count taken modulo 32 yields bit 31 (task 0).
TASK_NUM_TO_BIT(x) == IF x \in Tasks THEN {{x}} ELSE {{}, {0}}

\* The one value of TASK_NUM_TO_BIT for a task number that is in range.
Bit(x) == {x}

\* Values a read of __tasks[i].prio can give (any value when i is out of range).
PrioRead(i) == IF i \in Tasks THEN {prio[i]} ELSE 0 .. (MaxPrio + 1)

\* Values a read of __tasks[i].wakeup_time can give.
WakeupRead(i) == IF i \in Tasks THEN {wakeup_time[i]} ELSE {0, OS_NOSLEEP}

\* Values a read of __tasks[i].sp can give (NoTask: no task's frame).
SpRead(i) == IF i \in Tasks THEN {sp[i]} ELSE Tasks \cup {NoTask}

NoLoc == [tasknum |-> NoTask, nexttask |-> NoTask, candidates |-> {},
          tmp |-> {}, ms |-> -1, ticks |-> -1, wake |-> -1]

\* ----------------------------------------------------------- tick counter

\* A 32-bit word is held as its two 16-bit halves.
HalfBase == 2 ^ 16

ZeroWord == [h |-> 0, l |-> 0]

\* adds / adc: a 32-bit add of a word and a small number (an immediate plus
\* the carry flag); gives the sum modulo 2^32 and the carry flag.
AddWord(w, n) ==
    LET low  == w.l + n
        high == w.h + (low \div HalfBase)
    IN  [word |-> [h |-> high % HalfBase, l |-> low % HalfBase],
         carry |-> high \div HalfBase]

\* Mutant of SysTickIncrement: the upper word is added without the carry.
SysTickIncrementNoCarry(c) ==
    [lo |-> AddWord(c.lo, 1).word, hi |-> AddWord(c.hi, 0).word]

\* SysTick_Handler: ldr r3/r4; adds r5, r3, #1; adc r6, r4, #0; str r5/r6.
SysTickIncrement(c) ==
    LET low == AddWord(c.lo, 1)
    IN  [lo |-> low.word, hi |-> AddWord(c.hi, low.carry).word]

\* The carry flag after "adds r5, r3, #1".
CarryToUpper(c) == AddWord(c.lo, 1).carry = 1

\* No read of the counter in progress.  A read records the words it loads,
\* the counter at its first load, the ticks that interrupted it and whether
\* one of them carried into the upper word.
NoRead == [pc |-> "idle", first |-> "none", lo |-> ZeroWord, hi |-> ZeroWord,
           before |-> [lo |-> ZeroWord, hi |-> ZeroWord],
           ticked |-> 0, carried |-> FALSE]

\* ------------------------------------------------------------ task stacks

\* sizeof(task_stacks): a uint8_t array, so an index is a byte offset.
task_stacks_size == ((tasks_count - 1) * TASK_STACK_SIZE) + IDLE_STACK_SIZE

\* The pointer the macro gives for a task number, as a byte offset from
\* task_stacks.  The index is computed modulo 2^32 and the element address
\* modulo the 32-bit address space, so an index that wraps below zero gives
\* the address that many bytes below the array: the offset is the signed
\* value of the index expression.
TASK_NUM_TO_INITIAL_SP(tasknum) ==
    IF tasknum = tasks_count - 1
    THEN ((tasknum - 1) * TASK_STACK_SIZE) + IDLE_STACK_SIZE - WordSize
    ELSE (tasknum * TASK_STACK_SIZE) - WordSize

\* STM_Task_Stack_init: FrameWords stores of *sp--, the first one at the
\* pointer given, then task->sp = ++sp: the address of the last word stored.
STM_Task_Stack_init(initial) == initial - (WordSize * (FrameWords - 1))

\* The wrapper of system.h: nothing is stored when no driver is registered.
TaskStackInit(initial) ==
    IF Sys_Driver THEN STM_Task_Stack_init(initial) ELSE initial

\* __tasks[i].sp as the loop of scheduler_start() assigns it (initial) and
\* as TaskStackInit leaves it (saved).
InitialStacks ==
    [t \in Tasks |-> [initial |-> TASK_NUM_TO_INITIAL_SP(t),
                      saved |-> TaskStackInit(TASK_NUM_TO_INITIAL_SP(t))]]

\* -------------------------------------------------------------- bootstrap

\* The priorities the table is built with: every assignment for the small
\* table; MaxPrio for all user tasks but the last, which has
\* OS_LOWEST_PRIO + 1, for the MidTable one; OS_LOWEST_PRIO + 1 for every
\* user task of a larger one.
PrioTables(n) ==
    IF n = SmallTable
    THEN {p \in [0 .. (n - 1) -> 0 .. MaxPrio] :
            /\ p[n - 1] = OS_LOWEST_PRIO
            /\ \A t \in 0 .. (n - 2) : p[t] > OS_LOWEST_PRIO}
    ELSE IF n = MidTable
    THEN {[t \in 0 .. (n - 1) |->
             IF t = n - 1 THEN OS_LOWEST_PRIO
             ELSE IF t = n - 2 THEN OS_LOWEST_PRIO + 1 ELSE MaxPrio]}
    ELSE {[t \in 0 .. (n - 1) |->
             IF t = n - 1 THEN OS_LOWEST_PRIO ELSE OS_LOWEST_PRIO + 1]}

\* main() is about to call scheduler_start(); statics are zero-initialised.
Init ==
    /\ tasks_count \in TableSizes
    /\ Sys_Driver \in BOOLEAN
    /\ boot = "b112"
    /\ calls = 0
    /\ task_state_list = [s \in States |-> {}]
    /\ wakeup_time = [t \in Tasks |-> 0]
    /\ sp = [t \in Tasks |-> t]
    /\ stack = [t \in {} |-> 0]
    /\ prio \in PrioTables(tasks_count)
    /\ systicks = 0
    /\ counter = [lo |-> ZeroWord, hi |-> ZeroWord]
    /\ rd = NoRead
    /\ tick_cb = FALSE
    /\ pendsv = FALSE
    /\ hpc = "idle"
    /\ r5 = {}
    /\ cpu = NoTask
    /\ pc = [t \in Tasks |-> "entry"]
    /\ loc = [t \in Tasks |-> NoLoc]
    /\ oob = FALSE

\* Mutant of scheduler_start_Check: a table of MAX_NUM_TASKS is rejected too.
scheduler_start_CheckStrict ==
    /\ boot = "b112"
    /\ boot' = IF tasks_count >= MAX_NUM_TASKS THEN "main" ELSE "b121"
    /\ UNCHANGED <<task_state_list, wakeup_time, sp, Fixed, calls, stack, systicks, counter, rd,
                   tick_cb, pendsv, hpc, r5, cpu, pc, loc, oob>>

\* Lines 112-115: return to main() if the table is too large.
scheduler_start_Check ==
    /\ boot = "b112"
    /\ boot' = IF tasks_count > MAX_NUM_TASKS THEN "main" ELSE "b121"
    /\ UNCHANGED <<task_state_list, wakeup_time, sp, Fixed, calls, stack, systicks, counter, rd,
                   tick_cb, pendsv, hpc, r5, cpu, pc, loc, oob>>

\* Mutant of scheduler_start_Loop: task 0 is marked READY like the others.
scheduler_start_LoopAllReady ==
    /\ boot = "b121"
    /\ task_state_list' = [task_state_list EXCEPT !["READY"] = @ \cup Tasks]
    /\ wakeup_time' = [t \in Tasks |-> OS_NOSLEEP]
    /\ sp' = [t \in Tasks |-> t]
    /\ stack' = InitialStacks
    /\ boot' = "b141"
    /\ UNCHANGED <<Fixed, calls, systicks, counter, rd, tick_cb, pendsv, hpc, r5, cpu, pc,
                   loc, oob>>

\* Lines 121-137: the initialisation loop; no interrupt is enabled yet.
scheduler_start_Loop ==
    /\ boot = "b121"
    /\ task_state_list' = [task_state_list EXCEPT
                             !["READY"] = @ \cup (Tasks \ {0}),
                             !["RUNNING"] = @ \cup {0}]
    /\ wakeup_time' = [t \in Tasks |-> OS_NOSLEEP]
    /\ sp' = [t \in Tasks |-> t]
    /\ stack' = InitialStacks
    /\ boot' = "b141"
    /\ UNCHANGED <<Fixed, calls, systicks, counter, rd, tick_cb, pendsv, hpc, r5, cpu, pc,
                   loc, oob>>

\* Line 141: PendSV_init(); its result (SYSTEM_ERROR when Sys_Driver is
\* NULL) is discarded.
scheduler_start_PendSVInit ==
    /\ boot = "b141"
    /\ boot' = "b144"
    /\ UNCHANGED <<task_state_list, wakeup_time, sp, Fixed, calls, stack, systicks, counter, rd,
                   tick_cb, pendsv, hpc, r5, cpu, pc, loc, oob>>

\* Line 144: TICK_init(1, &schedule); with a driver the tick is enabled and
\* the callback stored, without one SYSTEM_ERROR is returned; the result is
\* discarded.
scheduler_start_TickInit ==
    /\ boot = "b144"
    /\ tick_cb' = Sys_Driver
    /\ boot' = "b153"
    /\ UNCHANGED <<task_state_list, wakeup_time, sp, Fixed, calls, stack, systicks, counter, rd, pendsv,
                   hpc, r5, cpu, pc, loc, oob>>

\* Line 153: __tasks[0].fn(...) is called on main()'s stack.
scheduler_start_CallTask ==
    /\ boot = "b153"
    /\ cpu' = 0
    /\ pc' = [t \in Tasks |-> "run"]
    /\ boot' = "task0"
    /\ UNCHANGED <<task_state_list, wakeup_time, sp, Fixed, calls, stack, systicks, counter, rd, tick_cb,
                   pendsv, hpc, r5, loc, oob>>

\* ------------------------------------------------------------- schedule()

\* Lines 167-181 (and 256-270 of yield): the ejected task goes to PENDING
\* if its wakeup time is set, to READY otherwise.
Reclaim(tsl, wk) ==
    IF tsl["EJECTED"] # {}
    THEN LET task == CountLeadingZeros(tsl["EJECTED"])
         IN  IF wk[task] # OS_NOSLEEP
             THEN [tsl EXCEPT !["PENDING"] = @ \cup tsl["EJECTED"],
                              !["EJECTED"] = {}]
             ELSE [tsl EXCEPT !["READY"] = @ \cup tsl["EJECTED"],
                              !["EJECTED"] = {}]
    ELSE tsl

\* Mutant of WakeScan: a task is woken on the tick equal to its wakeup_time.
RECURSIVE WakeScanAtEqual(_, _, _)
WakeScanAtEqual(pending, ticks, st) ==
    LET task == CountLeadingZeros(pending)
        st1  == IF ticks >= st.wk[task]
                THEN [tsl |-> [st.tsl EXCEPT !["PENDING"] = @ \ Bit(task),
                                             !["READY"] = @ \cup Bit(task)],
                      wk  |-> [st.wk EXCEPT ![task] = OS_NOSLEEP]]
                ELSE st
        rest == pending \ Bit(task)
    IN  IF rest # {} THEN WakeScanAtEqual(rest, ticks, st1) ELSE st1

\* Mutant of WakeScan: the loop ends after the first pending task.
WakeScanFirstOnly(pending, ticks, st) ==
    LET task == CountLeadingZeros(pending)
    IN  IF ticks > st.wk[task]
        THEN [tsl |-> [st.tsl EXCEPT !["PENDING"] = @ \ Bit(task),
                                     !["READY"] = @ \cup Bit(task)],
              wk  |-> [st.wk EXCEPT ![task] = OS_NOSLEEP]]
        ELSE st

\* Mutant of WakeScan: a woken task keeps its wakeup_time.
RECURSIVE WakeScanKeepWakeup(_, _, _)
WakeScanKeepWakeup(pending, ticks, st) ==
    LET task == CountLeadingZeros(pending)
        st1  == IF ticks > st.wk[task]
                THEN [tsl |-> [st.tsl EXCEPT !["PENDING"] = @ \ Bit(task),
                                             !["READY"] = @ \cup Bit(task)],
                      wk  |-> st.wk]
                ELSE st
        rest == pending \ Bit(task)
    IN  IF rest # {} THEN WakeScanKeepWakeup(rest, ticks, st1) ELSE st1

\* Lines 196-209: the do-while over the working copy of PENDING.
RECURSIVE WakeScan(_, _, _)
WakeScan(pending, ticks, st) ==
    LET task == CountLeadingZeros(pending)
        st1  == IF ticks > st.wk[task]
                THEN [tsl |-> [st.tsl EXCEPT !["PENDING"] = @ \ Bit(task),
                                             !["READY"] = @ \cup Bit(task)],
                      wk  |-> [st.wk EXCEPT ![task] = OS_NOSLEEP]]
                ELSE st
        rest == pending \ Bit(task)
    IN  IF rest # {} THEN WakeScan(rest, ticks, st1) ELSE st1

\* Mutant of SelectTask: the highest-numbered candidate of sufficient
\* priority is taken.
SelectTaskHighestNumber(candidates, cur_prio, dflt) ==
    LET ok == {c \in candidates : prio[c] >= cur_prio}
    IN  IF ok = {} THEN dflt ELSE CHOOSE x \in ok : \A y \in ok : x >= y

\* Mutant of SelectTask: a candidate one priority level lower is accepted.
RECURSIVE SelectTaskOneLower(_, _, _)
SelectTaskOneLower(candidates, cur_prio, dflt) ==
    LET next == CountLeadingZeros(candidates)
        rest == candidates \ Bit(next)
    IN  IF prio[next] + 1 >= cur_prio THEN next
        ELSE IF rest # {} THEN SelectTaskOneLower(rest, cur_prio, dflt)
        ELSE dflt

\* Mutant of SelectTask: the priority comparison is dropped.
SelectTaskAnyPrio(candidates, cur_prio, dflt) == CountLeadingZeros(candidates)

\* Lines 221-228 and 287-300: the first candidate, lowest task number
\* first, whose priority is >= cur_prio; dflt when there is none.
RECURSIVE SelectTask(_, _, _)
SelectTask(candidates, cur_prio, dflt) ==
    LET next == CountLeadingZeros(candidates)
        rest == candidates \ Bit(next)
    IN  IF prio[next] >= cur_prio THEN next
        ELSE IF rest # {} THEN SelectTask(rest, cur_prio, dflt)
        ELSE dflt

\* Mutant of MarkNext: the selected task stays in READY.
MarkNextKeepReady(tsl, selected) == [tsl EXCEPT !["NEXT"] = Bit(selected)]

\* Mutant of MarkNext: NEXT is OR-ed like the other vectors, not assigned.
MarkNextOr(tsl, selected) ==
    [tsl EXCEPT !["NEXT"] = @ \cup Bit(selected), !["READY"] = @ \ Bit(selected)]

\* Lines 230-235: mark the selected task NEXT and take it out of READY.
MarkNext(tsl, selected) ==
    [tsl EXCEPT !["NEXT"] = Bit(selected), !["READY"] = @ \ Bit(selected)]

schedule(ticks) ==
    LET a == Reclaim(task_state_list, wakeup_time)
    IN  IF a["PENDING"] = {}
        THEN /\ task_state_list' = a
             /\ UNCHANGED <<wakeup_time, pendsv, oob>>
        ELSE LET b    == WakeScan(a["PENDING"], ticks,
                                  [tsl |-> a, wk |-> wakeup_time])
                 curr == CountLeadingZeros(b.tsl["RUNNING"])
             IN  /\ wakeup_time' = b.wk
                 /\ IF b.tsl["PENDING"] # a["PENDING"]
                    THEN /\ oob' = (oob \/ curr \notin Tasks)
                         /\ \E cur_prio \in PrioRead(curr) :
                              LET selected == SelectTask(b.tsl["READY"], cur_prio, curr)
                              IN  IF selected # curr
                                  THEN /\ task_state_list' = MarkNext(b.tsl, selected)
                                       /\ pendsv' = TRUE
                                  ELSE /\ task_state_list' = b.tsl
                                       /\ UNCHANGED pendsv
                    ELSE /\ task_state_list' = b.tsl
                         /\ UNCHANGED <<pendsv, oob>>

\* SysTick_Handler: 64-bit increment, then the tick callback.  It has the
\* highest priority of the three levels, so it runs to completion.
SysTick_Handler ==
    /\ tick_cb
    /\ systicks < MaxTick
    /\ systicks' = systicks + 1
    /\ counter' = SysTickIncrement(counter)
    /\ rd' = IF rd.pc = "mid"
             THEN [rd EXCEPT !.ticked = @ + 1,
                             !.carried = @ \/ CarryToUpper(counter)]
             ELSE rd
    /\ schedule(systicks + 1)
    /\ UNCHANGED <<sp, Fixed, Booted, tick_cb, hpc, r5, cpu, pc, loc>>

\* --------------------------------------------------------- PendSV_Handler

\* Exception entry: taken when pended and no handler is active.
PendSV_Entry ==
    /\ pendsv
    /\ hpc = "idle"
    /\ pendsv' = FALSE
    /\ hpc' = "h230"
    /\ UNCHANGED <<task_state_list, wakeup_time, sp, Fixed, Booted, systicks, counter, rd, tick_cb,
                   r5, cpu, pc, loc, oob>>

\* ldr r5, [r2, #12]
PendSV_LoadRunning ==
    /\ hpc = "h230"
    /\ r5' = task_state_list["RUNNING"]
    /\ hpc' = "h231"
    /\ UNCHANGED <<task_state_list, wakeup_time, sp, Fixed, Booted, systicks, counter, rd, tick_cb,
                   pendsv, cpu, pc, loc, oob>>

\* Mutant of PendSV_StoreEjected: the store to EJECTED is missing.
PendSV_StoreEjectedSkipped ==
    /\ hpc = "h231"
    /\ hpc' = "h232"
    /\ UNCHANGED <<task_state_list, wakeup_time, sp, Fixed, Booted, systicks, counter, rd, tick_cb,
                   pendsv, r5, cpu, pc, loc, oob>>

\* str r5, [r2, #16]
PendSV_StoreEjected ==
    /\ hpc = "h231"
    /\ task_state_list' = [task_state_list EXCEPT !["EJECTED"] = r5]
    /\ hpc' = "h232"
    /\ UNCHANGED <<wakeup_time, sp, Fixed, Booted, systicks, counter, rd, tick_cb, pendsv, r5, cpu,
                   pc, loc, oob>>

\* str r6, [r2, #12]; clz; mul; str r0, [r3, r5]: RUNNING is cleared and the
\* interrupted stack pointer is stored in __tasks[clz(r5)].sp (a store to
\* __tasks[32] lands outside the table).
PendSV_ClearRunning ==
    /\ hpc = "h232"
    /\ task_state_list' = [task_state_list EXCEPT !["RUNNING"] = {}]
    /\ LET curr == Clz(r5)
       IN  sp' = IF curr \in Tasks THEN [sp EXCEPT ![curr] = cpu] ELSE sp
    /\ hpc' = "h245"
    /\ oob' = (oob \/ Clz(r5) \notin Tasks)
    /\ UNCHANGED <<wakeup_time, Fixed, Booted, systicks, counter, rd, tick_cb, pendsv, r5, cpu, pc,
                   loc>>

\* Mutant of PendSV_NextToRunning: the store that clears NEXT is missing.
PendSV_NextToRunningNoClear ==
    /\ hpc = "h245"
    /\ r5' = task_state_list["NEXT"]
    /\ task_state_list' = [task_state_list EXCEPT
                             !["RUNNING"] = task_state_list["NEXT"]]
    /\ hpc' = "h250"
    /\ UNCHANGED <<wakeup_time, sp, Fixed, Booted, systicks, counter, rd, tick_cb, pendsv, cpu, pc,
                   loc, oob>>

\* Mutant of PendSV_NextToRunning: NEXT is cleared and RUNNING is written
\* with the value loaded before the handler's first store.
PendSV_NextToRunningStale ==
    /\ hpc = "h245"
    /\ r5' = task_state_list["NEXT"]
    /\ task_state_list' = [task_state_list EXCEPT
                             !["RUNNING"] = task_state_list["EJECTED"],
                             !["NEXT"] = {}]
    /\ hpc' = "h250"
    /\ UNCHANGED <<wakeup_time, sp, Fixed, Booted, systicks, counter, rd, tick_cb, pendsv, cpu, pc,
                   loc, oob>>

\* cpsid i; ldr r5, [r2]; str r5, [r2, #12]; str r6, [r2]; cpsie i
PendSV_NextToRunning ==
    /\ hpc = "h245"
    /\ r5' = task_state_list["NEXT"]
    /\ task_state_list' = [task_state_list EXCEPT
                             !["RUNNING"] = task_state_list["NEXT"],
                             !["NEXT"] = {}]
    /\ hpc' = "h250"
    /\ UNCHANGED <<wakeup_time, sp, Fixed, Booted, systicks, counter, rd, tick_cb, pendsv, cpu, pc,
                   loc, oob>>

\* clz; mul; ldr r0, [r3, r5]; ldmia; msr msp, r0; bx r1: execution resumes
\* on the stack that __tasks[clz(r5)].sp points at.
PendSV_Return ==
    /\ hpc = "h250"
    /\ cpu' \in SpRead(Clz(r5))
    /\ hpc' = "idle"
    /\ r5' = {}
    /\ oob' = (oob \/ Clz(r5) \notin Tasks)
    /\ UNCHANGED <<task_state_list, wakeup_time, sp, Fixed, Booted, systicks, counter, rd, tick_cb,
                   pendsv, pc, loc>>


\* ------------------------------------------------------------ thread level

\* Thread-level code runs only while no exception is pending or active.
Thread == ~pendsv /\ hpc = "idle" /\ cpu \in Tasks

Goto(label) == pc' = [pc EXCEPT ![cpu] = label]
SetLoc(l) == loc' = [loc EXCEPT ![cpu] = l]
Me == loc[cpu]

\* All but pc, loc and the named shared variables are left alone.
\* The task bodies are followed in this state.
RunsBodies ==
    \/ tasks_count = SmallTable
    \/ tasks_count = MidTable /\ calls < MaxCalls

\* A call of yield() or sleep() is counted.
CountCall == calls' = IF tasks_count = MidTable THEN calls + 1 ELSE calls
NoCall == UNCHANGED calls

ThreadFrame == UNCHANGED <<Fixed, boot, sp, stack, systicks, counter, rd, tick_cb, hpc, r5, cpu>>

\* The access uses task number i as an index or a shift count.
Uses(i) == oob' = (oob \/ i \notin Tasks)
NoUse == UNCHANGED oob

\* A user task calls yield() (the idle task only waits for interrupts).
CallYield ==
    /\ Thread /\ pc[cpu] = "run" /\ cpu # IdleTask
    /\ RunsBodies
    /\ Goto("y256")
    /\ UNCHANGED <<task_state_list, wakeup_time, pendsv, loc>> /\ ThreadFrame /\ CountCall /\ NoUse

\* A user task's entry function returns.  Task 0 was called from
\* scheduler_start(), which then returns to main() and its closing
\* while(1); every other task was entered through the frame built by
\* STM_Task_Stack_init, whose link register holds &loop_forever.
task_Return ==
    /\ Thread /\ pc[cpu] = "run" /\ cpu # IdleTask
    /\ RunsBodies
    /\ Goto(IF cpu = 0 THEN "main" ELSE "loop_forever")
    /\ boot' = IF cpu = 0 THEN "main" ELSE boot
    /\ UNCHANGED <<Fixed, calls, stack, task_state_list, wakeup_time, sp, systicks, counter, rd, tick_cb,
                   pendsv, hpc, r5, cpu, loc, oob>>

\* A user task calls sleep(ms).
CallSleep ==
    /\ Thread /\ pc[cpu] = "run" /\ cpu # IdleTask
    /\ RunsBodies
    /\ \E ms \in 0 .. MaxSleep : SetLoc([Me EXCEPT !.ms = ms])
    /\ Goto("s330")
    /\ UNCHANGED <<task_state_list, wakeup_time, pendsv>> /\ ThreadFrame /\ CountCall /\ NoUse

\* ------------------------------------------------------------------ sleep()

\* Line 330: task = CountLeadingZeros(task_state_list[RUNNING])
sleep_GetTask ==
    /\ Thread /\ pc[cpu] = "s330"
    /\ SetLoc([Me EXCEPT !.tasknum = CountLeadingZeros(task_state_list["RUNNING"])])
    /\ Goto("s335")
    /\ UNCHANGED <<task_state_list, wakeup_time, pendsv>> /\ ThreadFrame /\ NoCall /\ NoUse

\* Line 335, right-hand side: TICK_get() + (uint64_t)ms
sleep_GetTicks ==
    /\ Thread /\ pc[cpu] = "s335"
    /\ SetLoc([Me EXCEPT !.wake = TICK_get + Me.ms, !.ms = -1])
    /\ Goto("s335s")
    /\ UNCHANGED <<task_state_list, wakeup_time, pendsv>> /\ ThreadFrame /\ NoCall /\ NoUse

\* Line 335, the store to __tasks[task].wakeup_time; then yield() is called.
sleep_SetWakeup ==
    /\ Thread /\ pc[cpu] = "s335s"
    /\ wakeup_time' = IF Me.tasknum \in Tasks
                      THEN [wakeup_time EXCEPT ![Me.tasknum] = Me.wake]
                      ELSE wakeup_time
    /\ SetLoc([Me EXCEPT !.tasknum = NoTask])
    /\ Goto("y256")
    /\ UNCHANGED <<task_state_list, pendsv>> /\ ThreadFrame /\ NoCall /\ Uses(Me.tasknum)

\* ------------------------------------------------------------------ yield()

\* Line 256: if(task_state_list[EJECTED])
yield_TestEjected ==
    /\ Thread /\ pc[cpu] = "y256"
    /\ Goto(IF task_state_list["EJECTED"] # {} THEN "y257" ELSE "y273")
    /\ UNCHANGED <<task_state_list, wakeup_time, pendsv, loc>> /\ ThreadFrame /\ NoCall /\ NoUse

\* Line 257: tasknum = CountLeadingZeros(task_state_list[EJECTED])
yield_GetEjected ==
    /\ Thread /\ pc[cpu] = "y257"
    /\ SetLoc([Me EXCEPT !.tasknum = CountLeadingZeros(task_state_list["EJECTED"])])
    /\ Goto("y260")
    /\ UNCHANGED <<task_state_list, wakeup_time, pendsv>> /\ ThreadFrame /\ NoCall /\ NoUse

\* Line 260: if(__tasks[tasknum].wakeup_time != OS_NOSLEEP)
yield_TestWakeup ==
    /\ Thread /\ pc[cpu] = "y260"
    /\ \E w \in WakeupRead(Me.tasknum) :
         Goto(IF w # OS_NOSLEEP THEN "y263" ELSE "y267")
    /\ SetLoc([Me EXCEPT !.tasknum = NoTask])
    /\ UNCHANGED <<task_state_list, wakeup_time, pendsv>> /\ ThreadFrame /\ NoCall /\ Uses(Me.tasknum)

\* The vector that "task_state_list[X] |= task_state_list[EJECTED]" updates.
Target(label) == IF label \in {"y263", "y263e", "y263t", "y263s"}
                 THEN "PENDING" ELSE "READY"

\* Lines 263 and 267: the first of the two loads of the read-modify-write;
\* the order of the two volatile reads is the compiler's choice.
yield_OrLoadFirst ==
    /\ Thread /\ pc[cpu] \in {"y263", "y267"}
    /\ \E first \in {"e", "t"} :
         /\ SetLoc([Me EXCEPT !.tmp = IF first = "e"
                                      THEN task_state_list["EJECTED"]
                                      ELSE task_state_list[Target(pc[cpu])]])
         /\ Goto(IF pc[cpu] = "y263" THEN (IF first = "e" THEN "y263e" ELSE "y263t")
                 ELSE (IF first = "e" THEN "y267e" ELSE "y267t"))
    /\ UNCHANGED <<task_state_list, wakeup_time, pendsv>> /\ ThreadFrame /\ NoCall /\ NoUse

\* Lines 263 and 267: the second load and the OR.
yield_OrLoadSecond ==
    /\ Thread /\ pc[cpu] \in {"y263e", "y263t", "y267e", "y267t"}
    /\ SetLoc([Me EXCEPT !.tmp = @ \cup (IF pc[cpu] \in {"y263e", "y267e"}
                                        THEN task_state_list[Target(pc[cpu])]
                                        ELSE task_state_list["EJECTED"])])
    /\ Goto(IF pc[cpu] \in {"y263e", "y263t"} THEN "y263s" ELSE "y267s")
    /\ UNCHANGED <<task_state_list, wakeup_time, pendsv>> /\ ThreadFrame /\ NoCall /\ NoUse

\* Lines 263 and 267: the store.
yield_OrStore ==
    /\ Thread /\ pc[cpu] \in {"y263s", "y267s"}
    /\ task_state_list' = [task_state_list EXCEPT ![Target(pc[cpu])] = Me.tmp]
    /\ SetLoc([Me EXCEPT !.tmp = {}])
    /\ Goto("y269")
    /\ UNCHANGED <<wakeup_time, pendsv>> /\ ThreadFrame /\ NoCall /\ NoUse

\* Line 269: task_state_list[EJECTED] = 0
yield_ClearEjected ==
    /\ Thread /\ pc[cpu] = "y269"
    /\ task_state_list' = [task_state_list EXCEPT !["EJECTED"] = {}]
    /\ Goto("y273")
    /\ UNCHANGED <<wakeup_time, pendsv, loc>> /\ ThreadFrame /\ NoCall /\ NoUse

\* Mutant of yield_GetCandidates: with READY empty the context switch is
\* triggered before the return.
yield_GetCandidatesTrigger ==
    /\ Thread /\ pc[cpu] = "y273"
    /\ SetLoc([Me EXCEPT !.candidates = task_state_list["READY"]])
    /\ Goto(IF task_state_list["READY"] = {} THEN "y320" ELSE "y281")
    /\ pendsv' = IF task_state_list["READY"] = {} THEN Sys_Driver ELSE pendsv
    /\ UNCHANGED <<task_state_list, wakeup_time>> /\ ThreadFrame /\ NoCall /\ NoUse

\* Lines 273-278: candidates = task_state_list[READY]; return if empty.
yield_GetCandidates ==
    /\ Thread /\ pc[cpu] = "y273"
    /\ SetLoc([Me EXCEPT !.candidates = task_state_list["READY"]])
    /\ Goto(IF task_state_list["READY"] = {} THEN "y320" ELSE "y281")
    /\ UNCHANGED <<task_state_list, wakeup_time, pendsv>> /\ ThreadFrame /\ NoCall /\ NoUse

\* Lines 281-303: tasknum = CountLeadingZeros(task_state_list[RUNNING]) and
\* the candidate loop, which reads only locals and the constant priorities.
yield_Select ==
    /\ Thread /\ pc[cpu] = "y281"
    /\ LET tasknum == CountLeadingZeros(task_state_list["RUNNING"])
       IN  \E current_prio \in PrioRead(tasknum) :
             LET nexttask == SelectTask(Me.candidates, current_prio, tasknum)
             IN  /\ SetLoc([Me EXCEPT !.tasknum = tasknum,
                                      !.nexttask = nexttask,
                                      !.candidates = {}])
                 /\ Goto(IF nexttask = tasknum THEN "y304" ELSE "y315")
    /\ UNCHANGED <<task_state_list, wakeup_time, pendsv>> /\ ThreadFrame /\ NoCall /\ Uses(CountLeadingZeros(task_state_list["RUNNING"]))

\* Mutant of yield_TestSleeping: the early return is missing.
yield_TestSleepingNoReturn ==
    /\ Thread /\ pc[cpu] = "y304"
    /\ Goto("y311")
    /\ SetLoc([Me EXCEPT !.tasknum = NoTask,
                         !.nexttask = NoTask])
    /\ UNCHANGED <<task_state_list, wakeup_time, pendsv>> /\ ThreadFrame /\ NoCall /\ Uses(Me.tasknum)

\* Line 304: if(__tasks[tasknum].wakeup_time == OS_NOSLEEP) return
yield_TestSleeping ==
    /\ Thread /\ pc[cpu] = "y304"
    /\ \E w \in WakeupRead(Me.tasknum) :
         Goto(IF w = OS_NOSLEEP THEN "y320" ELSE "y311")
    /\ SetLoc([Me EXCEPT !.tasknum = NoTask,
                         !.nexttask = NoTask])
    /\ UNCHANGED <<task_state_list, wakeup_time, pendsv>> /\ ThreadFrame /\ NoCall /\ Uses(Me.tasknum)

\* Line 311: nexttask = CountLeadingZeros(task_state_list[READY])
yield_PickReady ==
    /\ Thread /\ pc[cpu] = "y311"
    /\ SetLoc([Me EXCEPT !.nexttask = CountLeadingZeros(task_state_list["READY"])])
    /\ Goto("y315")
    /\ UNCHANGED <<task_state_list, wakeup_time, pendsv>> /\ ThreadFrame /\ NoCall /\ NoUse

\* Line 315: task_state_list[NEXT] = TASK_NUM_TO_BIT(nexttask)
yield_SetNext ==
    /\ Thread /\ pc[cpu] = "y315"
    /\ \E bit \in TASK_NUM_TO_BIT(Me.nexttask) :
         task_state_list' = [task_state_list EXCEPT !["NEXT"] = bit]
    /\ SetLoc([Me EXCEPT !.tasknum = NoTask])
    /\ Goto("y316")
    /\ UNCHANGED <<wakeup_time, pendsv>> /\ ThreadFrame /\ NoCall /\ Uses(Me.nexttask)

\* Line 316, the load of task_state_list[READY]
yield_LoadReady ==
    /\ Thread /\ pc[cpu] = "y316"
    /\ SetLoc([Me EXCEPT !.tmp = task_state_list["READY"]])
    /\ Goto("y316s")
    /\ UNCHANGED <<task_state_list, wakeup_time, pendsv>> /\ ThreadFrame /\ NoCall /\ NoUse

\* Mutant of yield_StoreReady: the selected task's bit is not cleared.
yield_StoreReadyKeep ==
    /\ Thread /\ pc[cpu] = "y316s"
    /\ task_state_list' = [task_state_list EXCEPT !["READY"] = Me.tmp]
    /\ SetLoc([Me EXCEPT !.tmp = {}, !.nexttask = NoTask])
    /\ Goto("y319")
    /\ UNCHANGED <<wakeup_time, pendsv>> /\ ThreadFrame /\ NoCall /\ Uses(Me.nexttask)

\* Line 316, the store of READY & ~TASK_NUM_TO_BIT(nexttask)
yield_StoreReady ==
    /\ Thread /\ pc[cpu] = "y316s"
    /\ \E bit \in TASK_NUM_TO_BIT(Me.nexttask) :
         task_state_list' = [task_state_list EXCEPT !["READY"] = Me.tmp \ bit]
    /\ SetLoc([Me EXCEPT !.tmp = {}, !.nexttask = NoTask])
    /\ Goto("y319")
    /\ UNCHANGED <<wakeup_time, pendsv>> /\ ThreadFrame /\ NoCall /\ Uses(Me.nexttask)

\* Line 319: PendSV_trigger()
yield_Trigger ==
    /\ Thread /\ pc[cpu] = "y319"
    /\ pendsv' = Sys_Driver
    /\ Goto("y320")
    /\ UNCHANGED <<task_state_list, wakeup_time, loc>> /\ ThreadFrame /\ NoCall /\ NoUse

\* Line 320, yield() called from the task body: back in the task.
yield_Return ==
    /\ Thread /\ pc[cpu] = "y320" /\ Me.wake = -1
    /\ SetLoc(NoLoc)
    /\ Goto("run")
    /\ UNCHANGED <<task_state_list, wakeup_time, pendsv>> /\ ThreadFrame /\ NoCall /\ NoUse

\* Lines 320 and 339, yield() called from sleep(): sleep() returns.
sleep_Return ==
    /\ Thread /\ pc[cpu] = "y320" /\ Me.wake # -1
    /\ SetLoc(NoLoc)
    /\ Goto("run")
    /\ UNCHANGED <<task_state_list, wakeup_time, pendsv>> /\ ThreadFrame /\ NoCall /\ NoUse

\* ---------------------------------------------------------- specification

Next ==
    \/ scheduler_start_Check
    \/ scheduler_start_Loop
    \/ scheduler_start_PendSVInit
    \/ scheduler_start_TickInit
    \/ scheduler_start_CallTask
    \/ task_Return
    \/ SysTick_Handler
    \/ PendSV_Entry
    \/ PendSV_LoadRunning
    \/ PendSV_StoreEjected
    \/ PendSV_ClearRunning
    \/ PendSV_NextToRunning
    \/ PendSV_Return
    \/ CallYield
    \/ CallSleep
    \/ sleep_GetTask
    \/ sleep_GetTicks
    \/ sleep_SetWakeup
    \/ yield_TestEjected
    \/ yield_GetEjected
    \/ yield_TestWakeup
    \/ yield_OrLoadFirst
    \/ yield_OrLoadSecond
    \/ yield_OrStore
    \/ yield_ClearEjected
    \/ yield_GetCandidates
    \/ yield_Select
    \/ yield_TestSleeping
    \/ yield_PickReady
    \/ yield_SetNext
    \/ yield_LoadReady
    \/ yield_StoreReady
    \/ yield_Trigger
    \/ yield_Return
    \/ sleep_Return

Spec == Init /\ [][Next]_vars

TypeOK ==
    /\ task_state_list \in [States -> SUBSET Tasks]
    /\ cpu \in Tasks \cup {NoTask}
    /\ systicks \in 0 .. MaxTick


\* ------------------------------------------------------------ observation

Four == {"READY", "PENDING", "RUNNING", "EJECTED"}

\* The vectors among S that task t is a member of.
In(t, S) == {s \in S : t \in task_state_list[s]}

READY == task_state_list["READY"]
PENDING == task_state_list["PENDING"]
RUNNING == task_state_list["RUNNING"]
EJECTED == task_state_list["EJECTED"]
NEXT == task_state_list["NEXT"]

\* The CPU is in a task's own code: no handler is active or pending, the
\* task on the CPU is not inside yield() or sleep(), and no table access has
\* been out of range so far.
TaskLevel ==
    /\ tick_cb /\ hpc = "idle" /\ ~pendsv
    /\ cpu \in Tasks /\ pc[cpu] = "run"
    /\ ~oob

\* This step is a run of SysTick_Handler.
TickStep == systicks' # systicks

\* This step is task t's return from sleep().
SleepReturns(t) == pc[t] = "y320" /\ loc[t].wake # -1 /\ pc'[t] = "run"

\* ------------------------------------------------------------------ claims

\* C1: each task is a member of exactly one of READY, PENDING, RUNNING and
\* EJECTED.  Stated for the most favourable observation points, TaskLevel,
\* where neither the hand-over through NEXT nor a scheduler call in
\* progress on the CPU can account for a difference.
C1_ExactlyOneOfFour ==
    TaskLevel => \A t \in Tasks : Cardinality(In(t, Four)) = 1

\* C2: sleep(k), having read tick count T, returns only when the tick
\* count is at least T + k + 1 (loc.wake holds T + k).  Stated for runs
\* with the tick programmed and without an out-of-range table access.
C2_SleepNotEarly ==
    [][\A t \in Tasks :
         (SleepReturns(t) /\ tick_cb /\ ~oob)
           => systicks >= loc[t].wake + 1]_vars

\* C3 as claimed: sleep(ms), having read tick count T, returns no later
\* than tick T + ms + 1.
C3_SleepNotLate ==
    [][\A t \in Tasks : SleepReturns(t) => systicks <= loc[t].wake + 1]_vars

\* C3 as amended: a tick leaves no task PENDING whose wakeup_time is below
\* the tick count, so a PENDING sleeper becomes READY on the first tick
\* whose count exceeds T + ms; when it runs again is up to the priorities.
C3_WokenByFirstLaterTick ==
    [][TickStep => \A t \in task_state_list'["PENDING"] :
                     wakeup_time'[t] >= systicks']_vars

\* C3 witness: a sleeper was made READY by the tick numbered T + ms + 1.
C3_Witness ==
    \E t \in Tasks :
        /\ pc[t] = "y320" /\ loc[t].wake # -1
        /\ systicks = loc[t].wake + 1
        /\ wakeup_time[t] = OS_NOSLEEP
        /\ t \in READY

\* C4: exactly one bit is set in RUNNING when schedule() is entered and
\* when it returns, wherever the tick fires.
C4_OneRunningAtTick ==
    [][TickStep => /\ Cardinality(RUNNING) = 1
                   /\ Cardinality(task_state_list'["RUNNING"]) = 1]_vars

C6_WakeupIffPending ==
    TaskLevel => \A t \in Tasks :
        /\ t \in PENDING => wakeup_time[t] # OS_NOSLEEP
        /\ wakeup_time[t] # OS_NOSLEEP => t \in PENDING \cup EJECTED

\* C7: NEXT holds at most one task in every reachable state.
C7_NextAtMostOne == Cardinality(NEXT) <= 1

\* C7 witness: the tick has written NEXT while the handler run requested
\* by yield() was in progress.
C7_Witness ==
    /\ hpc \in {"h230", "h231", "h232", "h245"} /\ pendsv
    /\ Cardinality(NEXT) = 1
    /\ \E t \in Tasks : pc[t] = "y320" /\ cpu = t

\* C8 as claimed: NEXT is empty at the moment PendSV_Handler returns.
C8_NextEmptyAtReturn ==
    [][(hpc = "h250" /\ hpc' = "idle") => task_state_list'["NEXT"] = {}]_vars

\* C8 as amended: NEXT is empty when the handler leaves its cpsid/cpsie
\* section, and at its return NEXT is empty unless a tick has since
\* selected a task and pended the handler again.
C8_NextClearedInSection ==
    [][/\ (hpc = "h245" /\ hpc' = "h250") => task_state_list'["NEXT"] = {}
       /\ (hpc = "h250" /\ hpc' = "idle")
            => (task_state_list'["NEXT"] = {} \/ pendsv')]_vars

\* C8 witness: the handler has just moved a task from NEXT to RUNNING.
C8_Witness ==
    /\ hpc = "h250" /\ NEXT = {}
    /\ Cardinality(RUNNING) = 1 /\ r5 = RUNNING

\* C9: the idle task is never a member of PENDING.
C9_IdleNeverPending == IdleTask \notin PENDING

\* C10: the idle task is READY whenever it is not RUNNING.  Stated in its
\* weakest reading: READY, RUNNING, or on its way between the two (NEXT,
\* EJECTED).
C10_IdleReadyOrRunning ==
    tick_cb => IdleTask \in READY \cup RUNNING \cup NEXT \cup EJECTED

\* ------------------------------------------- observation of a tick step

\* The ejected task is reclaimed into PENDING by this tick.
EjSleeping == EJECTED # {} /\ wakeup_time[Min(EJECTED)] # OS_NOSLEEP

\* PENDING and READY as the tick finds them after its reclaim phase.
PendingAtTick == PENDING \cup (IF EjSleeping THEN EJECTED ELSE {})
ReadyAtTick == READY \cup (IF EjSleeping THEN {} ELSE EJECTED)

\* The tasks whose sleep is over at this tick.
WokenAtTick == {t \in PendingAtTick : systicks' > wakeup_time[t]}

\* The task the claims expect a tick to select when b is running.
TickChoice(b) ==
    LET c == {t \in ReadyAtTick \cup WokenAtTick : prio[t] >= prio[b]}
    IN  IF c = {} THEN b ELSE Min(c)

\* This step leaves RUNNING, NEXT and the pending context switch alone.
NoSwitchStep ==
    /\ task_state_list'["RUNNING"] = RUNNING
    /\ task_state_list'["NEXT"] = NEXT
    /\ pendsv' = pendsv

\* ----------------------------------------------------------- claims, ctd.

\* C11: a tick on which no task is woken (no task that is PENDING after the
\* reclaim phase has a wakeup_time below the tick count) changes nothing
\* beyond the reclaim: NEXT, RUNNING and every wakeup_time are unchanged,
\* READY and PENDING only gain the reclaimed task, no switch is triggered.
C11_QuietTick ==
    [][(TickStep /\ WokenAtTick = {})
         => /\ NoSwitchStep
            /\ wakeup_time' = wakeup_time
            /\ task_state_list'["READY"] = ReadyAtTick
            /\ task_state_list'["PENDING"] = PendingAtTick
            /\ task_state_list'["EJECTED"] = {}]_vars

\* C11 witness: a tick has found a sleeper PENDING whose wakeup_time is the
\* tick's own count, and left it there.
C11_Witness ==
    /\ systicks > 0 /\ ~oob
    /\ \E t \in PENDING : wakeup_time[t] = systicks /\ loc[t].wake = systicks

\* C12: when yield() finds, after its reclaim phase, only candidates of
\* strictly lower priority than the running task, and the running task's
\* wakeup_time is the sentinel, it goes to its return without assigning
\* NEXT, changing RUNNING or triggering the context switch.
C12_YieldStable ==
    [][\A t \in Tasks :
         /\ ( /\ pc[t] = "y281" /\ pc'[t] # "y281"
              /\ Sys_Driver /\ RUNNING # {}
              /\ \A c \in loc[t].candidates : prio[c] < prio[Min(RUNNING)] )
            => (pc'[t] = "y304" /\ NoSwitchStep)
         /\ ( /\ pc[t] = "y304" /\ pc'[t] # "y304"
              /\ loc[t].tasknum \in Tasks
              /\ wakeup_time[loc[t].tasknum] = OS_NOSLEEP )
            => (pc'[t] = "y320" /\ NoSwitchStep)
         /\ (pc[t] = "y320" /\ pc'[t] # "y320")
            => (pc'[t] = "run" /\ NoSwitchStep)]_vars

\* C12 witness: task 0 of the highest priority has been through yield()
\* with every other task READY and of lower priority, and is at its return
\* with nothing changed.
C12_Witness ==
    /\ tasks_count = SmallTable /\ systicks = 0
    /\ cpu = 0 /\ pc[0] = "y320" /\ loc[0].wake = -1
    /\ RUNNING = {0} /\ READY = Tasks \ {0} /\ NEXT = {} /\ EJECTED = {}
    /\ ~pendsv /\ hpc = "idle"
    /\ \A c \in READY : prio[c] < prio[0]

\* C13: a tick that wakes a task while b is RUNNING selects the
\* lowest-numbered READY task of priority >= b's (woken and reclaimed tasks
\* included), or b itself: a task other than b becomes the only member of
\* NEXT, b selected leaves NEXT alone.
C13_TickSelectsLowestNumber ==
    [][\A b \in Tasks :
         (TickStep /\ RUNNING = {b} /\ WokenAtTick # {})
           => IF TickChoice(b) = b
              THEN NoSwitchStep
              ELSE task_state_list'["NEXT"] = {TickChoice(b)}]_vars

\* C13 witness: a tick has chosen task 0 for NEXT while task 1, of a
\* priority that also suffices, is READY.
C13_Witness ==
    /\ pendsv /\ hpc = "idle" /\ ~oob
    /\ NEXT = {0} /\ 1 \in READY
    /\ \E b \in Tasks : /\ RUNNING = {b} /\ cpu = b /\ pc[b] = "run"
                        /\ prio[1] >= prio[b]

C15_LowerWakeNoSwitch ==
    [][\A b \in Tasks :
         ( /\ TickStep /\ RUNNING = {b} /\ WokenAtTick # {}
           /\ \A a \in WokenAtTick : prio[a] < prio[b] )
         => /\ WokenAtTick \subseteq task_state_list'["READY"]
            /\ NoSwitchStep]_vars

\* C15 as amended: the same, for ticks that find no READY task of priority
\* >= the running task's.
C15_LowerWakeNoSwitchIfNoneReady ==
    [][\A b \in Tasks :
         ( /\ TickStep /\ RUNNING = {b} /\ WokenAtTick # {}
           /\ \A a \in WokenAtTick \cup ReadyAtTick : prio[a] < prio[b] )
         => /\ WokenAtTick \subseteq task_state_list'["READY"]
            /\ NoSwitchStep]_vars

\* C15 witness: a task of lower priority than the running one has been
\* woken and is READY, and the running task is still in its own code.
C15_Witness ==
    /\ hpc = "idle" /\ ~pendsv /\ ~oob /\ NEXT = {} /\ systicks > 0
    /\ \E a, b \in Tasks :
         /\ RUNNING = {b} /\ cpu = b /\ pc[b] = "run"
         /\ a \in READY /\ pc[a] = "y320" /\ loc[a].wake # -1
         /\ loc[a].wake < systicks
         /\ wakeup_time[a] = OS_NOSLEEP
         /\ prio[a] < prio[b]

\* The table lists the tasks highest priority first.
HighestFirst == \A t, u \in Tasks : t < u => prio[t] >= prio[u]

\* C16: for a table registered highest priority first, whenever a task is
\* in its own code and no context switch is pending or in progress, no
\* READY task has a strictly higher priority than the RUNNING task.
C16_NoHigherReady ==
    (TaskLevel /\ HighestFirst)
        => \A r \in READY : \A c \in RUNNING : prio[r] <= prio[c]

\* C17: scheduler_start() returns at its check exactly when the task count
\* exceeds MAX_NUM_TASKS; it has then changed no state vector, not stored
\* the tick callback and called no task.  With a smaller count, main() is
\* reached again only through a return of task 0.
C17_RejectsOversizedTable ==
    /\ (tasks_count > MAX_NUM_TASKS /\ boot # "b112")
         => /\ boot = "main"
            /\ task_state_list = [s \in States |-> {}]
            /\ wakeup_time = [t \in Tasks |-> 0]
            /\ ~tick_cb /\ systicks = 0 /\ ~pendsv
            /\ cpu = NoTask
            /\ \A t \in Tasks : pc[t] = "entry"
    /\ (tasks_count <= MAX_NUM_TASKS /\ boot = "main")
         => pc[0] = "main"

\* C17 witness: a table of MAX_NUM_TASKS + 1 tasks has been rejected.
C17_Witness == tasks_count = MAX_NUM_TASKS + 1 /\ boot = "main"

\* C18: when PendSV_init() or TICK_init() reports an error (no driver is
\* registered), task 0's entry is not called and nothing is scheduled.
C18_NoStartOnInitError ==
    ~Sys_Driver => (cpu = NoTask /\ \A t \in Tasks : pc[t] = "entry")

\* C19: with a driver registered, a task entry function that returns ends
\* in loop_forever, without scheduler_start() returning to main() and
\* without a change to a state vector or to a task's fields.
C19_ReturnTrapped ==
    [][\A t \in Tasks :
         (Sys_Driver /\ pc[t] = "run" /\ pc'[t] \in {"main", "loop_forever"})
           => /\ pc'[t] = "loop_forever"
              /\ boot' = boot
              /\ task_state_list' = task_state_list
              /\ wakeup_time' = wakeup_time
              /\ sp' = sp]_vars

\* C20: from the end of the initialisation loop to the call of task 0,
\* RUNNING = {0}, READY holds every other task, NEXT, PENDING and EJECTED
\* are empty and every wakeup_time is the sentinel.
C20_AfterInitLoop ==
    boot \in {"b141", "b144", "b153"}
        => /\ RUNNING = {0}
           /\ READY = Tasks \ {0}
           /\ NEXT = {} /\ PENDING = {} /\ EJECTED = {}
           /\ \A t \in Tasks : wakeup_time[t] = OS_NOSLEEP

\* C20 witness: the tick is programmed and task 0 is about to be called.
C20_Witness == boot = "b153" /\ tick_cb /\ tasks_count = SmallTable


\* --------------------------------------- two equal-priority yielding tasks

\* The small table with a driver and two user tasks of one priority.
InitTwoEqual ==
    /\ Init
    /\ tasks_count = SmallTable
    /\ Sys_Driver
    /\ prio[0] = prio[1]

\* Task bodies that call nothing but yield() and never return.  Line 311 of
\* yield() is left out: it runs only for a caller whose wakeup_time is set.
NextYieldOnly ==
    \/ scheduler_start_Check
    \/ scheduler_start_Loop
    \/ scheduler_start_PendSVInit
    \/ scheduler_start_TickInit
    \/ scheduler_start_CallTask
    \/ SysTick_Handler
    \/ PendSV_Entry
    \/ PendSV_LoadRunning
    \/ PendSV_StoreEjected
    \/ PendSV_ClearRunning
    \/ PendSV_NextToRunning
    \/ PendSV_Return
    \/ CallYield
    \/ yield_TestEjected
    \/ yield_GetEjected
    \/ yield_TestWakeup
    \/ yield_OrLoadFirst
    \/ yield_OrLoadSecond
    \/ yield_OrStore
    \/ yield_ClearEjected
    \/ yield_GetCandidates
    \/ yield_Select
    \/ yield_TestSleeping
    \/ yield_SetNext
    \/ yield_LoadReady
    \/ yield_StoreReady
    \/ yield_Trigger
    \/ yield_Return

SpecYieldOnly == InitTwoEqual /\ [][NextYieldOnly]_vars

\* A step in which task t reaches the end of yield().
YieldEnds(t) == pc[t] # "y320" /\ pc'[t] = "y320"

\* C21: with two equal-priority user tasks that only call yield(), every
\* yield() of one of them ends by triggering the context switch with the
\* other one in NEXT.
C21_YieldHandsOver ==
    [][\A t \in {0, 1} :
         (YieldEnds(t) /\ ~oob')
           => (pc[t] = "y319" /\ NEXT = {1 - t} /\ pendsv')]_vars

\* ------------------------------------------------- task context and tick

\* A step in which the running task executes the store of
\* "task_state_list[X] |= task_state_list[EJECTED]" (lines 263 and 267).
ReclaimStore ==
    /\ Thread
    /\ pc[cpu] \in {"y263s", "y267s"}
    /\ pc'[cpu] = "y269"

\* A step in which the running task executes the store of line 316.
ReadyStore ==
    /\ Thread
    /\ pc[cpu] = "y316s"
    /\ pc'[cpu] = "y319"

\* C22: a store that yield() makes to READY or PENDING keeps every bit that
\* is set in that vector when the store happens, except the bit of the task
\* yield() moves to NEXT, and sets no bit that is clear in it apart from the
\* ejected task's.
C22_NoLostUpdate ==
    [][/\ ReclaimStore =>
            /\ task_state_list[Target(pc[cpu])]
                 \subseteq task_state_list'[Target(pc[cpu])]
            /\ task_state_list'[Target(pc[cpu])]
                 \subseteq (task_state_list[Target(pc[cpu])] \cup EJECTED)
       /\ (ReadyStore /\ loc[cpu].nexttask \in Tasks) =>
            task_state_list'["READY"] = READY \ {loc[cpu].nexttask}]_vars

\* C23: the step of the handler between cpsid and cpsie stores into RUNNING
\* the value NEXT holds at that step, whoever wrote it, and leaves NEXT
\* empty; r5 keeps the value for the load of the stack pointer.
C23_TransferAtomic ==
    [][(hpc = "h245" /\ hpc' = "h250") =>
         /\ task_state_list'["RUNNING"] = NEXT
         /\ task_state_list'["NEXT"] = {}
         /\ r5' = NEXT
         /\ ~TickStep]_vars

\* C23 witness: a tick wrote NEXT while the handler was active, after the
\* handler's load of RUNNING, and the section transferred that value.
C23_Witness ==
    /\ hpc = "h250"
    /\ Cardinality(RUNNING) = 1
    /\ NEXT = {}
    /\ r5 = RUNNING
    /\ pendsv
    /\ ~oob

\* C24: the reclaim of the tick leaves EJECTED empty, and a task that the
\* reclaim store of yield() adds to PENDING has its wakeup_time set while a
\* task it adds to READY has not; the store adds at most one task.
C24_ReclaimDestination ==
    [][/\ TickStep => task_state_list'["EJECTED"] = {}
       /\ (ReclaimStore /\ ~oob) =>
            /\ \A e \in task_state_list'[Target(pc[cpu])]
                          \ task_state_list[Target(pc[cpu])] :
                 (Target(pc[cpu]) = "PENDING") <=> (wakeup_time[e] # OS_NOSLEEP)
            /\ Cardinality(task_state_list'[Target(pc[cpu])]
                             \ task_state_list[Target(pc[cpu])]) <= 1]_vars

\* C25: on a tick every task that is PENDING when the wake loop starts is
\* made READY (and from there possibly NEXT) with its wakeup_time reset to
\* OS_NOSLEEP if the new tick count is greater than its wakeup_time, and
\* otherwise stays PENDING with its wakeup_time unchanged.
C25_WakeIffDue ==
    [][TickStep =>
         \A t \in PendingAtTick :
            IF systicks' > wakeup_time[t]
            THEN /\ t \notin task_state_list'["PENDING"]
                 /\ t \in task_state_list'["READY"] \cup task_state_list'["NEXT"]
                 /\ wakeup_time'[t] = OS_NOSLEEP
            ELSE /\ t \in task_state_list'["PENDING"]
                 /\ wakeup_time'[t] = wakeup_time[t]]_vars

\* C25 witness: a tick woke one sleeper and left another, not yet due,
\* PENDING.
C25_Witness ==
    \E a, b \in Tasks :
        /\ a # b
        /\ pc[a] = "y320" /\ loc[a].wake # -1 /\ loc[a].wake < systicks
        /\ wakeup_time[a] = OS_NOSLEEP
        /\ a \in READY \cup NEXT
        /\ b \in PENDING
        /\ wakeup_time[b] = loc[b].wake
        /\ wakeup_time[b] >= systicks
        /\ systicks > 0

\* ------------------------------------------------------ yield() and sleep()

C27_SleepSwitches ==
    [][\A t \in Tasks :
         (tick_cb /\ cpu = t /\ RUNNING = {t} /\ loc[t].wake # -1
            /\ wakeup_time[t] # OS_NOSLEEP /\ ~oob') =>
            /\ (Thread /\ pc[t] = "y273" /\ pc'[t] # "y273") => READY # {}
            /\ YieldEnds(t) => (pc[t] = "y319" /\ pendsv')]_vars

\* C28: a task enters PENDING only from EJECTED and with its wakeup_time
\* set, and a task that enters READY has its wakeup_time at OS_NOSLEEP.
C28_PendingOnlyFromEjected ==
    [][\A t \in Tasks :
         ~oob' =>
            /\ (t \notin PENDING /\ t \in task_state_list'["PENDING"]) =>
                  (t \in EJECTED /\ wakeup_time[t] # OS_NOSLEEP)
            /\ (t \notin READY /\ t \in task_state_list'["READY"]) =>
                  wakeup_time'[t] = OS_NOSLEEP]_vars

\* ------------------------------------------------------- one handler run

\* C29: step by step, the handler loads RUNNING, stores that value to
\* EJECTED, clears RUNNING and stores the interrupted stack pointer in the
\* outgoing task's sp, moves NEXT to RUNNING leaving NEXT empty, and resumes
\* on the stack the incoming task's sp points at; no step of it changes
\* READY, PENDING or a wakeup_time.
C29_HandlerRun ==
    [][/\ (hpc' # hpc) =>
            /\ task_state_list'["READY"] = READY
            /\ task_state_list'["PENDING"] = PENDING
            /\ wakeup_time' = wakeup_time
       /\ (hpc = "h230" /\ hpc' = "h231") =>
            r5' = RUNNING /\ task_state_list' = task_state_list /\ sp' = sp
       /\ (hpc = "h231" /\ hpc' = "h232") =>
            /\ task_state_list'["EJECTED"] = r5
            /\ task_state_list'["RUNNING"] = RUNNING
            /\ task_state_list'["NEXT"] = NEXT
            /\ r5' = r5 /\ sp' = sp
       /\ (hpc = "h232" /\ hpc' = "h245") =>
            /\ task_state_list'["RUNNING"] = {}
            /\ task_state_list'["EJECTED"] = EJECTED
            /\ task_state_list'["NEXT"] = NEXT
            /\ r5 # {} => sp' = [sp EXCEPT ![Min(r5)] = cpu]
       /\ (hpc = "h245" /\ hpc' = "h250") =>
            /\ task_state_list'["RUNNING"] = NEXT
            /\ task_state_list'["NEXT"] = {}
            /\ task_state_list'["EJECTED"] = EJECTED
            /\ sp' = sp
       /\ (hpc = "h250" /\ hpc' = "idle") =>
            /\ task_state_list' = task_state_list
            /\ sp' = sp
            /\ r5 # {} => cpu' = sp[Min(r5)]]_vars

\* C29 witness: before any tick, task 0 yielded and the handler ran: task 0
\* is EJECTED with its stack pointer saved, task 1 is RUNNING on its own
\* stack and NEXT is empty.
C29_Witness ==
    /\ systicks = 0
    /\ hpc = "idle" /\ ~pendsv
    /\ pc[0] = "y320"
    /\ EJECTED = {0} /\ RUNNING = {1} /\ NEXT = {}
    /\ sp[0] = 0 /\ cpu = 1
    /\ READY = Tasks \ {0, 1}
    /\ ~oob

\* ----------------------------------------------------------- task stacks

\* C30: with the array cut into one region of TASK_STACK_SIZE bytes per
\* user task, in task order, and a last region of IDLE_STACK_SIZE bytes for
\* the idle task, every task's initial stack pointer is one word below the
\* top of its own region, the frames of two tasks do not overlap, and every
\* frame the stack initializer writes lies inside the array.
C30_FramesInsideArray ==
    Sys_Driver =>
      \A t \in DOMAIN stack :
         LET top == IF t = IdleTask
                    THEN (t * TASK_STACK_SIZE) + IDLE_STACK_SIZE
                    ELSE (t + 1) * TASK_STACK_SIZE
         IN  /\ stack[t].initial = top - WordSize
             /\ stack[t].saved >= 0
             /\ stack[t].initial + WordSize <= task_stacks_size
             /\ \A u \in DOMAIN stack :
                  u # t => \/ stack[u].initial < stack[t].saved
                           \/ stack[t].initial < stack[u].saved

\* ------------------------------------------------- reading the tick counter

\* Halves next to a wrap of a word.
NearWrap == {0, 1, HalfBase - 2, HalfBase - 1}

\* Task 0 of the small table is in sleep(), about to call TICK_get(); the
\* counter holds any value whose words are built from NearWrap halves, and
\* systicks counts the ticks from here on.
InitTicks ==
    /\ tasks_count = SmallTable
    /\ Sys_Driver = TRUE
    /\ boot = "task0"
    /\ calls = 0
    /\ task_state_list = [s \in States |->
                            IF s = "RUNNING" THEN {0}
                            ELSE IF s = "READY" THEN Tasks \ {0} ELSE {}]
    /\ wakeup_time = [t \in Tasks |-> OS_NOSLEEP]
    /\ sp = [t \in Tasks |-> t]
    /\ stack = InitialStacks
    /\ prio = [t \in Tasks |-> IF t = IdleTask THEN OS_LOWEST_PRIO
                               ELSE OS_LOWEST_PRIO + 1]
    /\ systicks = 0
    /\ counter \in [lo : [h : NearWrap, l : NearWrap],
                    hi : [h : NearWrap, l : NearWrap]]
    /\ rd = NoRead
    /\ tick_cb = TRUE
    /\ pendsv = FALSE
    /\ hpc = "idle"
    /\ r5 = {}
    /\ cpu = 0
    /\ pc = [t \in Tasks |-> IF t = 0 THEN "s335" ELSE "run"]
    /\ loc = [t \in Tasks |-> IF t = 0 THEN [NoLoc EXCEPT !.ms = 0, !.tasknum = 0]
                              ELSE NoLoc]
    /\ oob = FALSE

\* STM_TICK_get, "return systicks": the first of the two word loads of the
\* volatile 64-bit object; which word comes first is the compiler's choice.
TICK_get_LoadFirst ==
    /\ Thread /\ pc[cpu] = "s335"
    /\ rd.pc = "idle"
    /\ \E first \in {"lo", "hi"} :
         rd' = [rd EXCEPT !.pc = "mid",
                          !.first = first,
                          !.before = counter,
                          !.lo = IF first = "lo" THEN counter.lo ELSE @,
                          !.hi = IF first = "hi" THEN counter.hi ELSE @]
    /\ UNCHANGED <<task_state_list, wakeup_time, pendsv, loc, pc, counter, calls, oob,
                   Fixed, boot, sp, stack, systicks, tick_cb, hpc, r5, cpu>>

\* The second word load: the value STM_TICK_get returns is complete.
TICK_get_LoadSecond ==
    /\ Thread /\ pc[cpu] = "s335"
    /\ rd.pc = "mid"
    /\ rd' = [rd EXCEPT !.pc = "done",
                        !.lo = IF rd.first = "hi" THEN counter.lo ELSE @,
                        !.hi = IF rd.first = "lo" THEN counter.hi ELSE @]
    /\ UNCHANGED <<task_state_list, wakeup_time, pendsv, loc, pc, counter, calls, oob,
                   Fixed, boot, sp, stack, systicks, tick_cb, hpc, r5, cpu>>

NextTicks ==
    \/ SysTick_Handler
    \/ TICK_get_LoadFirst
    \/ TICK_get_LoadSecond

SpecTicks == InitTicks /\ [][NextTicks]_vars

\* The counter as four base-2^16 digits, least significant first.
Digits(c) == [i \in 0 .. 3 |->
                IF i = 0 THEN c.lo.l ELSE IF i = 1 THEN c.lo.h
                ELSE IF i = 2 THEN c.hi.l ELSE c.hi.h]

\* The digits of the 64-bit value plus one, modulo 2^64.
Successor(d) ==
    LET open == {i \in 0 .. 3 : d[i] # HalfBase - 1}
        k    == IF open = {} THEN 4 ELSE Min(open)
    IN  [i \in 0 .. 3 |-> IF i < k THEN 0 ELSE IF i = k THEN d[i] + 1 ELSE d[i]]

\* The value a finished read returns.
ReadValue(r) == [lo |-> r.lo, hi |-> r.hi]

\* C31: every tick replaces the counter by its 64-bit successor, and a read
\* interrupted only by ticks that do not carry into the upper word returns
\* the counter's value at its first load or its value at its second load.
C31_CounterRead ==
    [][/\ (counter' # counter) => Digits(counter') = Successor(Digits(counter))
       /\ (rd.pc = "mid" /\ rd'.pc = "done" /\ ~rd.carried) =>
             ReadValue(rd') \in {rd.before, counter}]_vars

\* C31 witness: a read was interrupted by a tick that did not carry and
\* returned the value from before the tick.
C31_Witness ==
    /\ rd.pc = "done"
    /\ rd.ticked > 0 /\ ~rd.carried
    /\ ReadValue(rd) = rd.before
    /\ ReadValue(rd) # counter

\* ------------------------------------------------- the vectors as a whole

\* C32: once the scheduler runs, every task is in at least one of the five
\* vectors.
C32_NoTaskLost ==
    (tick_cb /\ ~oob) =>
        \A t \in Tasks : \E s \in States : t \in task_state_list[s]

\* C33: while a task body runs (no scheduler call and no handler in
\* progress) the five vectors are pairwise disjoint.
C33_NoTaskDuplicated ==
    TaskLevel =>
        \A s1, s2 \in States :
            s1 # s2 => task_state_list[s1] \cap task_state_list[s2] = {}

\* C34: the handler's critical section finds exactly one task in NEXT.
C34_NextHoldsOneTask ==
    [][(hpc = "h245" /\ hpc' = "h250" /\ ~oob) => Cardinality(NEXT) = 1]_vars

\* C35: no read of the task table uses the index 32.
C35_IndexInRange == tick_cb => ~oob

\* C36: NEXT is empty before every write of a task to it.
C36_NextWrittenWhenEmpty ==
    [][(task_state_list'["NEXT"] # NEXT /\ task_state_list'["NEXT"] # {} /\ ~oob')
          => NEXT = {}]_vars

\* C37: EJECTED is empty when the handler stores the outgoing task in it.
C37_EjectedEmptyAtSwitch ==
    [][(hpc = "h231" /\ hpc' = "h232" /\ ~oob) => EJECTED = {}]_vars

CpuYieldOnly ==
    \/ scheduler_start_Check
    \/ scheduler_start_Loop
    \/ scheduler_start_PendSVInit
    \/ scheduler_start_TickInit
    \/ scheduler_start_CallTask
    \/ PendSV_Entry
    \/ PendSV_LoadRunning
    \/ PendSV_StoreEjected
    \/ PendSV_ClearRunning
    \/ PendSV_NextToRunning
    \/ PendSV_Return
    \/ yield_TestEjected
    \/ yield_GetEjected
    \/ yield_TestWakeup
    \/ yield_OrLoadFirst
    \/ yield_OrLoadSecond
    \/ yield_OrStore
    \/ yield_ClearEjected
    \/ yield_GetCandidates
    \/ yield_Select
    \/ yield_TestSleeping
    \/ yield_SetNext
    \/ yield_LoadReady
    \/ yield_StoreReady
    \/ yield_Trigger
    \/ yield_Return

\* A table of MidTable - 1 user tasks of one priority and the idle task.
InitEqualTasks ==
    /\ tasks_count = MidTable
    /\ Sys_Driver = TRUE
    /\ boot = "b112"
    /\ calls = 0
    /\ task_state_list = [s \in States |-> {}]
    /\ wakeup_time = [t \in Tasks |-> 0]
    /\ sp = [t \in Tasks |-> t]
    /\ stack = [t \in {} |-> 0]
    /\ prio = [t \in Tasks |-> IF t = IdleTask THEN OS_LOWEST_PRIO
                                               ELSE OS_LOWEST_PRIO + 1]
    /\ systicks = 0
    /\ counter = [lo |-> ZeroWord, hi |-> ZeroWord]
    /\ rd = NoRead
    /\ tick_cb = FALSE
    /\ pendsv = FALSE
    /\ hpc = "idle"
    /\ r5 = {}
    /\ cpu = NoTask
    /\ pc = [t \in Tasks |-> "entry"]
    /\ loc = [t \in Tasks |-> NoLoc]
    /\ oob = FALSE

\* The body of a user task is "while(1) yield();": whenever the task runs
\* its body it calls yield() again.
task_YieldAgain ==
    /\ Thread /\ pc[cpu] = "run" /\ cpu # IdleTask
    /\ Goto("y256")
    /\ UNCHANGED <<task_state_list, wakeup_time, pendsv, loc>> /\ ThreadFrame /\ NoCall /\ NoUse

NextEqualTasks ==
    \/ CpuYieldOnly
    \/ task_YieldAgain
    \/ SysTick_Handler

\* The processor never halts, a task that runs its body calls yield(), and
\* the enabled tick interrupt is taken.
SpecEqualTasks ==
    /\ InitEqualTasks
    /\ [][NextEqualTasks]_vars
    /\ WF_vars(CpuYieldOnly)
    /\ WF_vars(task_YieldAgain)
    /\ WF_vars(SysTick_Handler)

\* Task t is in none of the five vectors.
Lost(t) == \A s \in States : t \notin task_state_list[s]

\* C39: with MidTable - 1 user tasks of one priority whose bodies call
\* yield() for ever, every user task is RUNNING at some time, unless a task
\* index went out of range or a task dropped out of all the vectors.
C39_YieldReachesAll ==
    \A t \in 0 .. (MidTable - 2) :
        <>(RUNNING = {t} \/ oob \/ (tick_cb /\ \E u \in Tasks : Lost(u)))

\* The processor executes the next instruction of the bootstrap, of a task
\* inside sleep(), or of the PendSV handler.
CpuSleepOnly ==
    \/ scheduler_start_Check
    \/ scheduler_start_Loop
    \/ scheduler_start_PendSVInit
    \/ scheduler_start_TickInit
    \/ scheduler_start_CallTask
    \/ PendSV_Entry
    \/ PendSV_LoadRunning
    \/ PendSV_StoreEjected
    \/ PendSV_ClearRunning
    \/ PendSV_NextToRunning
    \/ PendSV_Return
    \/ sleep_GetTask
    \/ sleep_GetTicks
    \/ sleep_SetWakeup
    \/ yield_TestEjected
    \/ yield_GetEjected
    \/ yield_TestWakeup
    \/ yield_OrLoadFirst
    \/ yield_OrLoadSecond
    \/ yield_OrStore
    \/ yield_ClearEjected
    \/ yield_GetCandidates
    \/ yield_Select
    \/ yield_TestSleeping
    \/ yield_PickReady
    \/ yield_SetNext
    \/ yield_LoadReady
    \/ yield_StoreReady
    \/ yield_Trigger
    \/ sleep_Return

\* The sample application: two user tasks of priority OS_LOWEST_PRIO + 1
\* and the idle task, on a system with a driver.
InitSleepers ==
    /\ Init
    /\ tasks_count = SmallTable
    /\ Sys_Driver = TRUE
    /\ \A t \in 0 .. (SmallTable - 2) : prio[t] = OS_LOWEST_PRIO + 1

\* The bodies of taskA and taskB: "while(1) { ...; sleep(ms); }".
NextSleepers ==
    \/ CpuSleepOnly
    \/ CallSleep
    \/ SysTick_Handler

\* The processor never halts, a task that runs its body calls sleep(), and
\* the enabled tick interrupt is taken, up to tick MaxTick.
SpecSleepers ==
    /\ InitSleepers
    /\ [][NextSleepers]_vars
    /\ WF_vars(CpuSleepOnly)
    /\ WF_vars(CallSleep)
    /\ WF_vars(SysTick_Handler)

\* Task t is in a vector when the last tick that is followed has been taken:
\* a later tick can still wake or dispatch it.
LeftWaiting(t) == systicks = MaxTick /\ ~Lost(t)

\* C38: with user tasks whose bodies call sleep() for ever, a task that has
\* entered sleep() returns from it, unless a task index went out of range or
\* the task is still in a vector after tick MaxTick.
C38_SleeperReturns ==
    \A t \in 0 .. (SmallTable - 2) :
        (pc[t] = "s330") ~> (pc[t] = "run" \/ oob \/ LeftWaiting(t))

====
